---- MODULE Spec2Model ----
\* The co-author network of pubmed_network: build_coauthor_network builds the
\* graph from a list of articles, one article a step; detect_communities,
\* compute_centralities, get_network_stats and generate_network_html are then
\* called on the returned graph. Fractions are exact; a value rounded to four
\* decimals is kept as an integer number of ten-thousandths. The weighted
\* clustering coefficient of a node (cube roots of weights) is left out of the
\* centrality record.
EXTENDS Integers, Sequences, FiniteSets, TLC

\* bounds of the inputs
MaxAuthors == 3
MaxArticles == 2
MaxPairArticles == 4
MaxMinCoauthor == 2

John == <<"J", "o", "h", "n">>
Jane == <<"J", "a", "n", "e">>
Joe == <<"J", "o", "e">>
Ann == <<"A", "n", "n">>
Bo == <<"B", "o">>
Ken == <<"K", "e", "n">>
Mai == <<"M", "a", "i">>

Author(l, f, a) == [last_name |-> l, first_name |-> f, affiliation |-> a]

\* the author records of the short lists: three of them resolve to one key
AuthorPool ==
    << Author("Smith", <<Jane>>, "MIT"),
       Author("Smith", <<John>>, ""),
       Author("Smith", <<Joe>>, "UCL"),
       Author("Lee", <<>>, ""),
       Author("Kim", <<Ann, Bo>>, "KAIST") >>

\* the elements of a set of numbers, in increasing order
RECURSIVE Ascending(_)
Ascending(S) ==
    IF S = {} THEN <<>>
    ELSE LET m == CHOOSE x \in S : \A y \in S : x <= y
         IN  <<m>> \o Ascending(S \ {m})

\* an article: up to MaxAuthors different records, listed in the pool's order
AuthorLists ==
    { [n \in 1..Len(Ascending(S)) |-> AuthorPool[Ascending(S)[n]]] :
        S \in { T \in SUBSET (1..Len(AuthorPool)) : Cardinality(T) \in 1..MaxAuthors } }

ArticleLists == UNION { [1..n -> AuthorLists] : n \in 0..MaxArticles }

\* a wider input made of small articles: one record per key, five keys, one
\* or two authors an article
DistinctPool ==
    << Author("Ito", <<Mai>>, ""),
       Author("Kim", <<Ann, Bo>>, "KAIST"),
       Author("Lee", <<>>, ""),
       Author("Sato", <<Ken>>, ""),
       Author("Smith", <<Jane>>, "MIT") >>

\* a small article, as the positions of its authors in DistinctPool
SmallArticles ==
    { <<i>> : i \in 1..Len(DistinctPool) }
        \cup { q \in (1..Len(DistinctPool)) \X (1..Len(DistinctPool)) : q[1] < q[2] }

SmallRank(t) == t[1] * (Len(DistinctPool) + 1) + (IF Len(t) = 2 THEN t[2] ELSE 0)

\* lists of up to MaxPairArticles small articles; the articles of a list come
\* in one fixed order
SmallArticleLists ==
    { [n \in 1..Len(l) |-> [a \in 1..Len(l[n]) |-> DistinctPool[l[n][a]]]] :
        l \in { s \in UNION { [1..n -> SmallArticles] : n \in 0..MaxPairArticles } :
                  \A n \in 1..(Len(s) - 1) : SmallRank(s[n]) <= SmallRank(s[n + 1]) } }

\* part[0] of a whitespace-separated token of the given name
Initial(part) == part[1]

\* 'Last FM': the surname, a blank and the initials; the surname alone when
\* the given name is empty. A key is the sequence of its pieces.
_author_key(a) ==
    IF a.first_name # <<>>
    THEN <<a.last_name, " ">> \o [i \in 1..Len(a.first_name) |-> Initial(a.first_name[i])]
    ELSE <<a.last_name>>

EmptyGraph == [node |-> <<>>, order |-> <<>>, edge |-> <<>>]

has_node(g, k) == k \in DOMAIN g.node
has_edge(g, u, v) == {u, v} \in DOMAIN g.edge

Put(f, k, v) == [x \in DOMAIN f \cup {k} |-> IF x = k THEN v ELSE f[x]]

\* AddAuthor with the test on the stored affiliation dropped: a later
\* non-empty affiliation overwrites the stored one
AddAuthor_Overwrite(g, a) ==
    LET key == _author_key(a)
        g1 == IF ~has_node(g, key)
              THEN [g EXCEPT !.node = Put(g.node, key, [paper_count |-> 0, affiliation |-> a.affiliation]),
                             !.order = Append(g.order, key)]
              ELSE g
        g2 == [g1 EXCEPT !.node[key].paper_count = @ + 1]
    IN  IF a.affiliation # ""
        THEN [g2 EXCEPT !.node[key].affiliation = a.affiliation]
        ELSE g2

AddAuthor(g, a) ==
    LET key == _author_key(a)
        g1 == IF ~has_node(g, key)
              THEN [g EXCEPT !.node = Put(g.node, key, [paper_count |-> 0, affiliation |-> a.affiliation]),
                             !.order = Append(g.order, key)]
              ELSE g
        g2 == [g1 EXCEPT !.node[key].paper_count = @ + 1]
    IN  IF a.affiliation # "" /\ g2.node[key].affiliation = ""
        THEN [g2 EXCEPT !.node[key].affiliation = a.affiliation]
        ELSE g2

RECURSIVE AddAuthors(_, _)
AddAuthors(g, authors) ==
    IF authors = <<>> THEN g
    ELSE AddAuthors(AddAuthor(g, Head(authors)), Tail(authors))

AddPair(g, a1, a2) ==
    IF has_edge(g, a1, a2)
    THEN [g EXCEPT !.edge[{a1, a2}] = @ + 1]
    ELSE [g EXCEPT !.edge = Put(g.edge, {a1, a2}, 1)]

\* combinations(author_keys, 2): index pairs i < j in lexicographic order
RECURSIVE AddPairs(_, _, _, _)
AddPairs(g, keys, i, j) ==
    IF i >= Len(keys) THEN g
    ELSE IF j > Len(keys) THEN AddPairs(g, keys, i + 1, i + 2)
    ELSE AddPairs(AddPair(g, keys[i], keys[j]), keys, i, j + 1)

AddArticle(g, article) ==
    LET author_keys == [n \in 1..Len(article) |-> _author_key(article[n])]
    IN  AddPairs(AddAuthors(g, article), author_keys, 1, 2)


\* ---------------------------------------------------------------- graph reads
Nodes(g) == DOMAIN g.node
Edges(g) == DOMAIN g.edge
number_of_nodes(g) == Cardinality(Nodes(g))
\* a self-loop is one edge
number_of_edges(g) == Cardinality(Edges(g))
\* G[v]: the adjacency of v (v itself when v carries a self-loop)
Adj(g, v) == { u \in Nodes(g) : {u, v} \in Edges(g) }
\* G.degree: a self-loop counts twice
Degree(g, v) == Cardinality(Adj(g, v) \ {v}) + (IF {v} \in Edges(g) THEN 2 ELSE 0)

RECURSIVE SumOver(_, _)
SumOver(S, f) ==
    IF S = {} THEN 0
    ELSE LET x == CHOOSE y \in S : TRUE IN f[x] + SumOver(S \ {x}, f)

RECURSIVE Grow(_, _)
Grow(g, S) ==
    LET T == S \cup UNION { Adj(g, v) : v \in S }
    IN  IF T = S THEN S ELSE Grow(g, T)

ComponentOf(g, v) == Grow(g, {v})

\* nx.connected_components: components in the order their first node was inserted
RECURSIVE ComponentsFrom(_, _, _)
ComponentsFrom(g, i, seen) ==
    IF i > Len(g.order) THEN <<>>
    ELSE IF g.order[i] \in seen THEN ComponentsFrom(g, i + 1, seen)
    ELSE LET c == ComponentOf(g, g.order[i])
         IN  <<c>> \o ComponentsFrom(g, i + 1, seen \cup c)

connected_components(g) == ComponentsFrom(g, 1, {})

\* ------------------------------------------------------------ communities
\* Python's order on the key strings of the pool
KeyOrder == << <<"Ito", " ", "M">>, <<"Kim", " ", "A", "B">>, <<"Lee">>, <<"Sato", " ", "K">>, <<"Smith", " ", "J">> >>
KeyRank(k) == CHOOSE i \in 1..Len(KeyOrder) : KeyOrder[i] = k
KeyLess(a, b) == KeyRank(a) < KeyRank(b)

\* undirected.subgraph(comp): the nodes of comp and the edges among them
subgraph(g, comp) ==
    [node  |-> [k \in comp |-> g.node[k]],
     order |-> SelectSeq(g.order, LAMBDA k : k \in comp),
     edge  |-> [e \in { d \in Edges(g) : d \subseteq comp } |-> g.edge[e]]]

\* edges (self-loops left out) joining the groups A and B
Between(g, A, B) == Cardinality({ e \in Edges(g) : e \cap A # {} /\ e \cap B # {} /\ Cardinality(e) = 2 })
DegreeSum(g, A) == SumOver(A, [v \in Nodes(g) |-> Degree(g, v)])

\* modularity gain of merging the groups labelled u and v, scaled by 2 m^2:
\* dq = L_uv / m - K_u K_v / (2 m^2)
DeltaQ(g, comms, u, v) ==
    2 * number_of_edges(g) * Between(g, comms[u], comms[v])
        - DegreeSum(g, comms[u]) * DegreeSum(g, comms[v])

Mergeable(g, comms) ==
    { p \in (DOMAIN comms) \X (DOMAIN comms) :
        p[1] # p[2] /\ Between(g, comms[p[1]], comms[p[2]]) > 0 }

\* the heap's top: the largest gain, ties by the smaller pair of labels
BestMerge(g, comms) ==
    CHOOSE p \in Mergeable(g, comms) :
        \A q \in Mergeable(g, comms) :
            \/ DeltaQ(g, comms, p[1], p[2]) > DeltaQ(g, comms, q[1], q[2])
            \/ /\ DeltaQ(g, comms, p[1], p[2]) = DeltaQ(g, comms, q[1], q[2])
               /\ \/ p = q
                  \/ KeyLess(p[1], q[1])
                  \/ p[1] = q[1] /\ KeyLess(p[2], q[2])

\* merge while the best gain is not negative
RECURSIVE GreedyMerge(_, _)
GreedyMerge(g, comms) ==
    IF Mergeable(g, comms) = {} THEN comms
    ELSE LET p == BestMerge(g, comms)
         IN  IF DeltaQ(g, comms, p[1], p[2]) < 0 THEN comms
             ELSE GreedyMerge(g,
                    [l \in DOMAIN comms \ {p[1]} |->
                        IF l = p[2] THEN comms[p[1]] \cup comms[p[2]] ELSE comms[l]])

\* insertion sort by size, largest first, equal sizes in their given order
RECURSIVE InsertBySize(_, _)
InsertBySize(c, s) ==
    IF s = <<>> THEN <<c>>
    ELSE IF Cardinality(c) > Cardinality(Head(s)) THEN <<c>> \o s
    ELSE <<Head(s)>> \o InsertBySize(c, Tail(s))

RECURSIVE SortBySize(_)
SortBySize(s) ==
    IF s = <<>> THEN <<>>
    ELSE InsertBySize(s[Len(s)], SortBySize(SubSeq(s, 1, Len(s) - 1)))

\* nx_community.greedy_modularity_communities(subgraph): the groups, largest first
greedy_modularity_communities(g) ==
    IF number_of_edges(g) = 0
    THEN [i \in 1..Len(g.order) |-> {g.order[i]}]
    ELSE LET comms  == GreedyMerge(g, [k \in Nodes(g) |-> {k}])
             labels == SelectSeq(g.order, LAMBDA k : k \in DOMAIN comms)
         IN  SortBySize([i \in 1..Len(labels) |-> comms[labels[i]]])

\* AssignGroups with the id counter never advanced
RECURSIVE AssignGroups_SameId(_, _, _)
AssignGroups_SameId(map, groups, community_id) ==
    IF groups = <<>> THEN [community_map |-> map, community_id |-> community_id]
    ELSE AssignGroups_SameId([k \in DOMAIN map \cup Head(groups) |->
                                 IF k \in Head(groups) THEN community_id ELSE map[k]],
                             Tail(groups), community_id)

\* one group per id, starting at community_id
RECURSIVE AssignGroups(_, _, _)
AssignGroups(map, groups, community_id) ==
    IF groups = <<>> THEN [community_map |-> map, community_id |-> community_id]
    ELSE AssignGroups([k \in DOMAIN map \cup Head(groups) |->
                          IF k \in Head(groups) THEN community_id ELSE map[k]],
                      Tail(groups), community_id + 1)

\* DetectFrom without the except branch: a component on which the grouping
\* raises is left out of the mapping
RECURSIVE DetectFrom_NoFallback(_, _, _, _, _)
DetectFrom_NoFallback(g, components, failing, map, community_id) ==
    IF components = <<>> THEN map
    ELSE LET comp == Head(components)
             sub  == subgraph(g, comp)
             groups == IF Cardinality(comp) < 3 THEN <<comp>>
                       ELSE IF comp \in failing THEN <<>>
                       ELSE greedy_modularity_communities(sub)
             r == AssignGroups(map, groups, community_id)
         IN  DetectFrom_NoFallback(g, Tail(components), failing, r.community_map, r.community_id)

\* the loop over the components (on undirected = G.copy()); failing is the
\* set of components on which the grouping raises
RECURSIVE DetectFrom(_, _, _, _, _)
DetectFrom(g, components, failing, map, community_id) ==
    IF components = <<>> THEN map
    ELSE LET comp == Head(components)
             sub  == subgraph(g, comp)
             groups == IF Cardinality(comp) < 3 THEN <<comp>>
                       ELSE IF comp \in failing THEN <<comp>>
                       ELSE greedy_modularity_communities(sub)
             r == AssignGroups(map, groups, community_id)
         IN  DetectFrom(g, Tail(components), failing, r.community_map, r.community_id)

detect_communities(g, failing) ==
    IF number_of_nodes(g) = 0 THEN <<>>
    ELSE DetectFrom(g, connected_components(g), failing, <<>>, 0)

Range(s) == { s[i] : i \in DOMAIN s }
\* the components on which the modularity grouping is run
Grouped(g) == { c \in Range(connected_components(g)) : Cardinality(c) >= 3 }

\* ------------------------------------------------------------ centralities
RECURSIVE GCD(_, _)
GCD(a, b) == IF b = 0 THEN a ELSE GCD(b, a % b)

\* exact fractions <<numerator, denominator>>, in lowest terms
Frac(n, d) == IF n = 0 THEN <<0, 1>> ELSE <<n \div GCD(n, d), d \div GCD(n, d)>>
FracAdd(x, y) == Frac(x[1] * y[2] + y[1] * x[2], x[2] * y[2])

RECURSIVE FracSum(_, _)
FracSum(S, f) ==
    IF S = {} THEN <<0, 1>>
    ELSE LET x == CHOOSE y \in S : TRUE IN FracAdd(f[x], FracSum(S \ {x}, f))

\* round(x, 4), in ten-thousandths: to the nearest, a tie to the even one
Round4(x) ==
    LET q == (10000 * x[1]) \div x[2]
        r == (10000 * x[1]) % x[2]
    IN  IF 2 * r > x[2] \/ (2 * r = x[2] /\ q % 2 = 1) THEN q + 1 ELSE q

Infinity == 1000000

\* cost of one step u -> v: the edge's weight when weighted, one hop otherwise
StepCost(g, u, v, weighted) == IF weighted THEN g.edge[{u, v}] ELSE 1

Min(S) == CHOOSE x \in S : \A y \in S : x <= y

\* shortest distances from s: relax every edge until nothing changes
RECURSIVE Relax(_, _, _)
Relax(g, d, weighted) ==
    LET e == [v \in Nodes(g) |->
                Min({d[v]} \cup { d[u] + StepCost(g, u, v, weighted) :
                                    u \in { w \in Adj(g, v) : d[w] < Infinity } })]
    IN  IF e = d THEN d ELSE Relax(g, e, weighted)

Distances(g, s, weighted) ==
    Relax(g, [v \in Nodes(g) |-> IF v = s THEN 0 ELSE Infinity], weighted)

\* sigma: the number of shortest paths from s to t
RECURSIVE PathCount(_, _, _, _, _)
PathCount(g, d, s, t, weighted) ==
    IF t = s THEN 1
    ELSE SumOver({ u \in Adj(g, t) \ {t} : d[u] + StepCost(g, u, t, weighted) = d[t] },
                 [u \in Nodes(g) |-> PathCount(g, d, s, u, weighted)])

\* nx.betweenness_centrality(G, weight=..., normalized=True): for every node v
\* the sum over ordered pairs (s, t) of sigma_st(v) / sigma_st, scaled by
\* 1 / ((n - 1)(n - 2)) when n > 2
betweenness(g, weighted) ==
    LET n   == number_of_nodes(g)
        D   == [s \in Nodes(g) |-> Distances(g, s, weighted)]
        Sig == [s \in Nodes(g) |-> [t \in Nodes(g) |->
                   IF D[s][t] < Infinity THEN PathCount(g, D[s], s, t, weighted) ELSE 0]]
        Pairs(v) == { p \in (Nodes(g) \ {v}) \X (Nodes(g) \ {v}) :
                        p[1] # p[2] /\ D[p[1]][p[2]] < Infinity }
        Dep(v) == [p \in Pairs(v) |->
                     IF D[p[1]][v] < Infinity /\ D[p[1]][v] + D[v][p[2]] = D[p[1]][p[2]]
                     THEN Frac(Sig[p[1]][v] * Sig[v][p[2]], Sig[p[1]][p[2]])
                     ELSE <<0, 1>>]
    IN  [v \in Nodes(g) |->
            IF n <= 2 THEN <<0, 1>>
            ELSE LET b == FracSum(Pairs(v), Dep(v))
                 IN  Frac(b[1], b[2] * (n - 1) * (n - 2))]

\* nx.degree_centrality
degree_centrality(g) ==
    [v \in Nodes(g) |->
        IF number_of_nodes(g) <= 1 THEN <<1, 1>>
        ELSE Frac(Degree(g, v), number_of_nodes(g) - 1)]

\* nx.closeness_centrality(G): hop distances, scaled by the reachable share
closeness_centrality(g) ==
    [v \in Nodes(g) |->
        LET d     == Distances(g, v, FALSE)
            sp    == { u \in Nodes(g) : d[u] < Infinity }
            totsp == SumOver(sp, d)
            n     == number_of_nodes(g)
        IN  IF totsp > 0 /\ n > 1
            THEN Frac((Cardinality(sp) - 1) * (Cardinality(sp) - 1), totsp * (n - 1))
            ELSE <<0, 1>>]

\* the record of one node; the four metrics in ten-thousandths
compute_centralities(g) ==
    IF number_of_nodes(g) = 0 THEN <<>>
    ELSE LET degree == degree_centrality(g)
             between == betweenness(g, TRUE)
             closeness == closeness_centrality(g)
         IN  [node \in Nodes(g) |->
                [paper_count |-> g.node[node].paper_count,
                 affiliation |-> g.node[node].affiliation,
                 degree_centrality |-> Round4(degree[node]),
                 betweenness_centrality |-> Round4(between[node]),
                 closeness_centrality |-> Round4(closeness[node])]]

\* ------------------------------------------------------------------- stats
\* nx.density
density(g) ==
    LET n == number_of_nodes(g)
        m == number_of_edges(g)
    IN  IF m = 0 \/ n <= 1 THEN <<0, 1>> ELSE Frac(2 * m, n * (n - 1))

\* nx.clustering(G) of one node, unweighted: self-loops are ignored
clustering(g, v) ==
    LET nbrs == Adj(g, v) \ {v}
        d    == Cardinality(nbrs)
        t    == Cardinality({ e \in Edges(g) : e \subseteq nbrs /\ Cardinality(e) = 2 })
    IN  IF t = 0 THEN <<0, 1>> ELSE Frac(2 * t, d * (d - 1))

average_clustering(g) ==
    LET s == FracSum(Nodes(g), [v \in Nodes(g) |-> clustering(g, v)])
    IN  Frac(s[1], s[2] * number_of_nodes(g))

Max(S) == CHOOSE x \in S : \A y \in S : x >= y

get_network_stats(g) ==
    IF number_of_nodes(g) = 0 THEN [nodes |-> 0, edges |-> 0]
    ELSE LET components == connected_components(g)
         IN  [nodes |-> number_of_nodes(g),
              edges |-> number_of_edges(g),
              density |-> Round4(density(g)),
              connected_components |-> Len(components),
              largest_component_size |-> Max({ Cardinality(c) : c \in Range(components) }),
              avg_clustering |-> Round4(average_clustering(g))]

\* --------------------------------------------------------------- rendering
COMMUNITY_COLORS ==
    << "#e6194b", "#3cb44b", "#4363d8", "#f58231", "#911eb4",
       "#42d4f4", "#f032e6", "#bfef45", "#fabed4", "#469990",
       "#dcbeff", "#9A6324", "#800000", "#aaffc3", "#808000",
       "#000075", "#a9a9a9" >>

\* communities.get(node, 0)
CommunityOf(comms, node) == IF node \in DOMAIN comms THEN comms[node] ELSE 0

\* generate_network_html with the filter applied to the graph itself: the
\* edges below min_coauthor are removed from G
generate_network_html_Transform(g, comms, min_coauthor) ==
    LET filtered_edges == { e \in DOMAIN g.edge : g.edge[e] >= min_coauthor }
    IN  [G |-> [g EXCEPT !.edge = [e \in filtered_edges |-> g.edge[e]]],
         html |-> [drawn |-> filtered_edges # {}, nodes |-> <<>>, edges |-> <<>>]]

\* the graph as the call leaves it, and the page: the nodes and edges drawn.
\* size is 10 + 30 * sqrt(ratio); the page keeps the ratio under the root.
generate_network_html(g, comms, min_coauthor) ==
    LET filtered_edges == { e \in Edges(g) : g.edge[e] >= min_coauthor }
        nodes_in_filtered == UNION filtered_edges
        max_papers == Max({ g.node[n].paper_count : n \in nodes_in_filtered })
        max_weight == Max({ g.edge[e] : e \in filtered_edges })
    IN  [G |-> g,
         html |->
            IF nodes_in_filtered = {}
            THEN [drawn |-> FALSE, nodes |-> <<>>, edges |-> <<>>]
            ELSE [drawn |-> TRUE,
                  nodes |-> [n \in nodes_in_filtered |->
                               [paper_count |-> g.node[n].paper_count,
                                affiliation |-> g.node[n].affiliation,
                                comm_id |-> CommunityOf(comms, n),
                                color |-> COMMUNITY_COLORS[(CommunityOf(comms, n) % Len(COMMUNITY_COLORS)) + 1],
                                ratio |-> Frac(g.node[n].paper_count, max_papers)]],
                  edges |-> [e \in filtered_edges |->
                               [value |-> g.edge[e],
                                width |-> FracAdd(<<1, 1>>, Frac(4 * g.edge[e], max_weight))]]]]

\* ------------------------------------------------------------------- state
\* articles, idx: the argument of build_coauthor_network and the position of
\* its loop; G: the graph; pc: "build" while the builder runs, "built" once it
\* has returned; called: the analyses called on G since; the other variables
\* hold what each analysis returned (raised: the components on which the
\* modularity grouping raised during detect_communities).
VARIABLES articles, idx, G, pc, called, communities, raised, centralities, stats, html
vars == <<articles, idx, G, pc, called, communities, raised, centralities, stats, html>>

NoPage == [drawn |-> FALSE, nodes |-> <<>>, edges |-> <<>>]

Start ==
    /\ idx = 1
    /\ G = EmptyGraph
    /\ pc = "build"
    /\ called = {}
    /\ communities = <<>>
    /\ raised = {}
    /\ centralities = <<>>
    /\ stats = <<>>
    /\ html = NoPage

Init == articles \in ArticleLists /\ Start

InitSmall == articles \in SmallArticleLists /\ Start

\* one iteration of the loop over the articles
ProcessArticle ==
    /\ pc = "build"
    /\ idx <= Len(articles)
    /\ G' = AddArticle(G, articles[idx])
    /\ idx' = idx + 1
    /\ UNCHANGED <<articles, pc, called, communities, raised, centralities, stats, html>>

\* return G: the argument goes out of scope
Return ==
    /\ pc = "build"
    /\ idx > Len(articles)
    /\ pc' = "built"
    /\ articles' = <<>>
    /\ idx' = 0
    /\ UNCHANGED <<G, called, communities, raised, centralities, stats, html>>

DetectCommunities ==
    /\ pc = "built"
    /\ "detect_communities" \notin called
    /\ \E r \in SUBSET Grouped(G) :
        /\ raised' = r
        /\ communities' = detect_communities(G, r)
    /\ called' = called \cup {"detect_communities"}
    /\ UNCHANGED <<articles, idx, G, pc, centralities, stats, html>>

ComputeCentralities ==
    /\ pc = "built"
    /\ "compute_centralities" \notin called
    /\ centralities' = compute_centralities(G)
    /\ called' = called \cup {"compute_centralities"}
    /\ UNCHANGED <<articles, idx, G, pc, communities, raised, stats, html>>

GetNetworkStats ==
    /\ pc = "built"
    /\ "get_network_stats" \notin called
    /\ stats' = get_network_stats(G)
    /\ called' = called \cup {"get_network_stats"}
    /\ UNCHANGED <<articles, idx, G, pc, communities, raised, centralities, html>>

GenerateNetworkHtml ==
    /\ pc = "built"
    /\ "generate_network_html" \notin called
    /\ \E min_coauthor \in 1..MaxMinCoauthor :
        LET r == generate_network_html(G, communities, min_coauthor)
        IN  /\ G' = r.G
            /\ html' = r.html
    /\ called' = called \cup {"generate_network_html"}
    /\ UNCHANGED <<articles, idx, pc, communities, raised, centralities, stats>>

Build == ProcessArticle \/ Return

Next == Build \/ DetectCommunities \/ ComputeCentralities \/ GetNetworkStats \/ GenerateNetworkHtml

NextDetect == Build \/ DetectCommunities

\* the whole pipeline on short lists of articles of up to MaxAuthors records
Spec == Init /\ [][Next]_vars

\* the builder and the community detection on longer lists of small articles
SpecDetect == InitSmall /\ [][NextDetect]_vars

\* ------------------------------------------------- the input, as the claims read it
Analyses == {"detect_communities", "compute_centralities", "get_network_stats", "generate_network_html"}

\* the author keys of one article
KeysOf(article) == { _author_key(article[n]) : n \in 1..Len(article) }
\* the number of the first p articles on which the key k appears
Appearances(k, p) == Cardinality({ i \in 1..p : k \in KeysOf(articles[i]) })
\* the number of the first p articles on which the keys u and v both appear
Together(u, v, p) == Cardinality({ i \in 1..p : {u, v} \subseteq KeysOf(articles[i]) })
\* the builder's loop is over: G is the graph about to be returned
LoopDone == pc = "build" /\ idx > Len(articles)

\* the affiliations of the records of key k in the first p articles, in input order
RECURSIVE AffiliationsOf(_, _)
AffiliationsOf(k, p) ==
    IF p = 0 THEN <<>>
    ELSE AffiliationsOf(k, p - 1)
            \o [n \in 1..Len(SelectSeq(articles[p], LAMBDA a : _author_key(a) = k)) |->
                    SelectSeq(articles[p], LAMBDA a : _author_key(a) = k)[n].affiliation]

FirstNonEmpty(affs) ==
    IF \E i \in 1..Len(affs) : affs[i] # ""
    THEN affs[Min({ i \in 1..Len(affs) : affs[i] # "" })]
    ELSE ""

\* the groups a mapping makes of the nodes in S
GroupsIn(map, S) == { { v \in S : map[v] = map[u] } : u \in S }

\* ------------------------------------------------------------------ claims

\* C1: the paper_count of every node of the returned graph equals the number
\* of distinct input articles on which that author key appears, also when two
\* author records of one article resolve to the same key.
C1_PaperCountIsArticleCount ==
    LoopDone =>
        \A k \in Nodes(G) : G.node[k].paper_count = Appearances(k, Len(articles))

\* C2: two distinct author keys are joined by an edge exactly when they
\* co-occur on at least one article, and the edge's weight is the number of
\* articles on which both co-occur.
C2_WeightIsCooccurrenceCount ==
    LoopDone =>
        \A u, v \in UNION { KeysOf(articles[i]) : i \in 1..Len(articles) } :
            u # v =>
                /\ has_edge(G, u, v) <=> Together(u, v, Len(articles)) > 0
                /\ has_edge(G, u, v) => G.edge[{u, v}] = Together(u, v, Len(articles))

\* C3: after any prefix of the article list the graph has no self-loop.
C3_NoSelfLoop == \A e \in Edges(G) : Cardinality(e) = 2

\* C4: detect_communities returns a mapping whose keys are exactly the nodes
\* of G, the sizes of the communities sum to the node count, and no community
\* id is given to nodes of two different connected components.
C4_CommunitiesPartitionNodes ==
    "detect_communities" \in called =>
        /\ DOMAIN communities = Nodes(G)
        /\ SumOver(Range(communities),
                   [i \in Range(communities) |->
                       Cardinality({ v \in Nodes(G) : communities[v] = i })])
             = number_of_nodes(G)
        /\ \A u, v \in Nodes(G) :
              communities[u] = communities[v] => ComponentOf(G, u) = ComponentOf(G, v)

\* detection has run on a graph of several components, one of them split
\* into more than one community
C4_Witness ==
    /\ "detect_communities" \in called
    /\ Len(connected_components(G)) >= 2
    /\ \E c \in Range(connected_components(G)) : Cardinality(GroupsIn(communities, c)) >= 2

\* C5: degree centrality, closeness centrality and density lie in [0,1] when
\* the graph has more than one node, and are 0 when it has at most one node
\* (values in ten-thousandths).
C5_MetricsInUnitRange ==
    /\ "compute_centralities" \in called =>
          \A v \in Nodes(G) :
              IF number_of_nodes(G) > 1
              THEN /\ centralities[v].degree_centrality \in 0..10000
                   /\ centralities[v].closeness_centrality \in 0..10000
              ELSE /\ centralities[v].degree_centrality = 0
                   /\ centralities[v].closeness_centrality = 0
    /\ ("get_network_stats" \in called /\ number_of_nodes(G) >= 1) =>
          IF number_of_nodes(G) > 1
          THEN stats.density \in 0..10000
          ELSE stats.density = 0

\* C6: the empty article list gives a graph of 0 nodes and 0 edges, on which
\* detect_communities and compute_centralities return empty mappings and
\* get_network_stats returns node count, edge count, density, component
\* count, largest component size and average clustering, all present and 0.
C6_EmptyListAllZero ==
    /\ (LoopDone /\ articles = <<>>) => number_of_nodes(G) = 0 /\ number_of_edges(G) = 0
    /\ (pc = "built" /\ number_of_nodes(G) = 0) =>
          /\ "detect_communities" \in called => communities = <<>>
          /\ "compute_centralities" \in called => centralities = <<>>
          /\ "get_network_stats" \in called =>
                \A f \in {"nodes", "edges", "density", "connected_components",
                          "largest_component_size", "avg_clustering"} :
                    f \in DOMAIN stats /\ stats[f] = 0

\* C7: once build_coauthor_network has returned G, no call of
\* detect_communities, compute_centralities, get_network_stats or
\* generate_network_html, in any order and for any min_coauthor, changes G.
C7_AnalysesLeaveGraph == [][pc = "built" => G' = G]_vars

\* all four analyses have been called and the page drew a part of the edges only
C7_Witness ==
    /\ called = Analyses
    /\ html.drawn
    /\ DOMAIN html.edges # Edges(G)

\* C8: the affiliation stored on a node is the first non-empty affiliation
\* among that key's records in input order (empty if all are empty), and an
\* affiliation that was non-empty after an earlier article is still the one
\* stored.
C8_FirstAffiliationKept ==
    pc = "build" =>
        \A k \in Nodes(G) :
            /\ G.node[k].affiliation = FirstNonEmpty(AffiliationsOf(k, idx - 1))
            /\ \A p \in 0..(idx - 1) :
                  FirstNonEmpty(AffiliationsOf(k, p)) # ""
                      => G.node[k].affiliation = FirstNonEmpty(AffiliationsOf(k, p))

\* a key whose records carry an empty affiliation first and then two
\* different non-empty ones, the later one in a later article
C8_Witness ==
    /\ pc = "build"
    /\ \E k \in Nodes(G) :
          LET affs == AffiliationsOf(k, idx - 1)
          IN  /\ Len(affs) >= 3
              /\ affs[1] = ""
              /\ \E i, j \in 1..Len(affs) : i < j /\ affs[i] # "" /\ affs[j] # "" /\ affs[i] # affs[j]
              /\ FirstNonEmpty(AffiliationsOf(k, idx - 2)) # ""
              /\ Len(AffiliationsOf(k, idx - 2)) < Len(affs)

\* C9: when the modularity grouping raises on a component of 3 or more
\* nodes, detect_communities still returns a mapping of every node: the
\* component gets one id that no node outside it carries, the other
\* components are grouped as they are when nothing raises, and a component
\* of fewer than 3 nodes gets one id.
C9_FallbackOneCommunity ==
    "detect_communities" \in called =>
        /\ DOMAIN communities = Nodes(G)
        /\ \A c \in raised :
              \E i \in Range(communities) :
                  \A v \in Nodes(G) : communities[v] = i <=> v \in c
        /\ \A c \in Range(connected_components(G)) \ raised :
              GroupsIn(communities, c) = GroupsIn(detect_communities(G, {}), c)
        /\ \A c \in Range(connected_components(G)) :
              Cardinality(c) < 3 => Cardinality(GroupsIn(communities, c)) = 1

\* the grouping raised on a component that it splits in two when it does
\* not raise, and the graph has another component
C9_Witness ==
    /\ "detect_communities" \in called
    /\ \E c \in raised :
          /\ Cardinality(GroupsIn(detect_communities(G, {}), c)) >= 2
          /\ c # Nodes(G)

\* C10: the betweenness reported for a node is the one over shortest paths
\* by hop count: it is the same whatever the weights of the edges.
C10_BetweennessByHops ==
    "compute_centralities" \in called =>
        \A v \in Nodes(G) :
            centralities[v].betweenness_centrality = Round4(betweenness(G, FALSE)[v])
====
